---- MODULE Spec2Model ----
(***************************************************************************)
(* Model of chloop.GetCharLoop (src/chloop/__init__.py) with the example   *)
(* sub-class Mine (src/examples/mine.py): the character dispatch loop of   *)
(* GetCharLoop.__call__, attribute lookup of typed commands, the call of   *)
(* the resolved attribute, and the dictionaries handed to Redis.           *)
(***************************************************************************)
EXTENDS Integers, Sequences, FiniteSets, TLC

VARIABLES
    state,          \* "AWAIT_CHAR" while the `while True` of __call__ runs, "STOPPED" after it is left
    stopped_by,     \* how __call__ was left: "" (still running), "break", or the exception that escaped
    _chfunc_dict,   \* self._chfunc_dict: character -> <<function, help text>>
    cmd_results,    \* the dicts added under keypart 'cmd_results', in order of addition
    error,          \* the dicts added under keypart 'error', in order of addition
    host_attrs,     \* the data attributes the sub-class set on the loop before GetCharLoop.__init__ ran
    _method_names,  \* self._method_names
    _method_docs,   \* self._method_docs: name -> docstring
    notes,          \* the sorted set at self._session_notes_key: {[note, score]}, one entry per member
    event           \* what the last iteration of the loop read and did (its locals and its output)

\* What __init__ sets and nothing assigns afterwards.
registry == <<host_attrs, _method_names, _method_docs>>

vars == <<state, stopped_by, _chfunc_dict, registry, cmd_results, error, notes, event>>

----------------------------------------------------------------------------
(* Bounds *)

MaxStored == 2      \* entries put into Redis in one run: 'cmd_results', 'error' and notes

----------------------------------------------------------------------------
(* Inputs *)

Whitespace == {" ", "\t"}

\* A line typed at click.prompt, as its pieces in order: a piece is one
\* whitespace character or a run of non-whitespace characters.  click.prompt
\* asks again on an empty line, so no line is empty.
Lines ==
    { <<"somefunc">>,
      <<"somefunc", " ", "a", " ", "b">>,
      <<"somefunc", " ", "b", "\t", " ", "a">>,
      <<" ", "lame">>,
      <<"docstrings">>,
      <<"history">>,
      <<"history", " ", "a">>,
      <<"errors">>,
      <<"session_notes">>,
      <<"indices">>,
      <<"shortcuts">>,
      <<"nope">>, <<"mything">>,
      <<"ipdb">>,
      <<"pdb">>,
      <<"ipython">>,
      <<"_class_doc">>,
      <<"_prompt">>,
      <<"_prompt", " ", "a">>,
      <<" ", "\t">> }

NoteTexts == {"n1", "n2"}

\* What time.time() can return.
Epochs == {1, 2}

\* What can go wrong around a call, besides what the called code does itself:
\*   "interrupt"   the user presses ^C while the call runs
\*   "redis_down"  Redis refuses every operation of this iteration
\*   "add_fails"   Redis refuses the first addition and answers afterwards
Faults == {"none", "interrupt", "redis_down", "add_fails"}

\* The typed lines, each with the fault that accompanies it and the time that
\* time.time() returns should the command fail.
CommandInputs ==
    (Lines \X {"none"} \X {1})
    \cup ({<<"somefunc", " ", "a", " ", "b">>, <<"history">>, <<" ", "lame">>}
          \X {"interrupt", "redis_down"} \X {1})
    \cup {<< <<"somefunc", " ", "a", " ", "b">>, "add_fails", 2 >>,
          << <<" ", "lame">>, "none", 2 >>}

\* What click.getchar() can return.
EscapeSeqs == {"\\x1bx"}
Chars == {"-", ":", "?", "h", "l", "n"} \cup EscapeSeqs

\* What click.getchar() can raise.
CharSignals == {"EOFError", "KeyboardInterrupt"}

----------------------------------------------------------------------------
(* The host object: GetCharLoop and its sub-class Mine *)

Methods ==
    {"session_keys", "indices", "session_notes", "history", "errors",
     "ipdb", "docstrings", "somefunc", "lame", "_class_doc"}

DataAttrs == {"_prompt"}

\* The attribute the sub-class Mine sets before it calls GetCharLoop.__init__.
MineAttrs == {"_mything"}

\* Sub-classes that keep what they were constructed with in an attribute:
\* Mine, and one that names the attribute without the underscore.
Hosts == {MineAttrs, {"mything"}}

\* inspect.getmembers(self): the names of everything the loop has.
Members(attrs) == Methods \cup DataAttrs \cup attrs

\* The attributes of the loop that hold a value, not a method.
IsData(name) == name \in DataAttrs \cup host_attrs

HasAttr(name) == name \in Members(host_attrs)

\* m[0].startswith('_') for the names above.
StartsWithUnderscore(name) == name \in {"_class_doc", "_prompt", "_mything"}

\* Lines 52-55: the members of the loop whose name does not start with '_'.
MethodNames(attrs) == {m \in Members(attrs) : ~StartsWithUnderscore(m)}

\* A name that only names a debugger session is never called (line 218).
DebuggerCmd_Pdb == "pdb"

\* The typed name that opens the debugger (line 218).
DebuggerCmd == "ipdb"

_DONT_LOG_CMDS ==
    {"errors", "help", "history", "indices", "session_keys", "session_notes"}

\* Methods that talk to Redis when called.
RedisReaders == {"session_keys", "indices", "session_notes", "history", "errors"}

\* The hotkeys of the example: bound methods of the loop and a lambda.
MineHotkeys ==
    [c \in {"h", "e", "a"} |->
        CASE c = "h" -> <<"history", "display recent command history">>
          [] c = "e" -> <<"errors", "display recent errors">>
          [] c = "a" -> <<"hello", "say hello">>]

\* A caller's chfunc_dict that binds ':', a method that raises, and a string
\* where a function belongs (line 41 takes the dict as it is).
OtherHotkeys ==
    [c \in {":", "l", "n"} |->
        CASE c = ":" -> <<"hello", "say hello">>
          [] c = "l" -> <<"lame", "raise exception">>
          [] c = "n" -> <<"'not a function'", "no function">>]

\* callable(x) for the values above: the methods and the lambda are, a str is not.
Callable(x) == x \in Methods \cup {"hello"}

----------------------------------------------------------------------------
(* Pure functions *)

\* str.split() with no argument: the maximal runs of non-whitespace, in order.
RECURSIVE SplitFrom(_, _, _, _)
SplitFrom(line, i, cur, acc) ==
    IF i > Len(line)
    THEN IF cur = "" THEN acc ELSE Append(acc, cur)
    ELSE IF line[i] \in Whitespace
         THEN SplitFrom(line, i + 1, "", IF cur = "" THEN acc ELSE Append(acc, cur))
         ELSE SplitFrom(line, i + 1, cur \o line[i], acc)

Split(line) == SplitFrom(line, 1, "", <<>>)

\* ' '.join(args)
RECURSIVE Join(_)
Join(args) ==
    IF args = <<>> THEN ""
    ELSE IF Len(args) = 1 THEN args[1]
    ELSE args[1] \o " " \o Join(Tail(args))

\* repr() of a list of strings
RECURSIVE ReprItems(_)
ReprItems(args) ==
    IF args = <<>> THEN ""
    ELSE IF Len(args) = 1 THEN "'" \o args[1] \o "'"
    ELSE "'" \o args[1] \o "', " \o ReprItems(Tail(args))

ReprList(args) == "[" \o ReprItems(args) \o "]"

\* ord(ch) for the single characters of Chars that are no hotkey, note or command key
Ord(c) == CASE c = "?" -> 63 [] c = "h" -> 104 [] c = "l" -> 108 [] c = "n" -> 110
            [] c = "-" -> 45 [] c = ":" -> 58

\* time.strftime('%Y_%m%d-%a-%H%M%S', time.localtime(epoch))
TimeString(epoch) == "%Y_%m%d-%a-%H%M%S@" \o ToString(epoch)

\* The lexicographic order of the note texts.
NoteOrder == <<"n1", "n2">>
NoteRank(note) == CHOOSE i \in DOMAIN NoteOrder : NoteOrder[i] = note

\* The entries of the sorted set in score order (ZRANGE key 0 -1 WITHSCORES);
\* members of one score in lexicographic order.
RECURSIVE ZRange(_)
ZRange(zset) ==
    IF zset = {} THEN <<>>
    ELSE LET first == CHOOSE r \in zset :
                        \A q \in zset : \/ r.score < q.score
                                        \/ r.score = q.score /\ NoteRank(r.note) <= NoteRank(q.note)
         IN <<first>> \o ZRange(zset \ {first})

\* session_notes(): one line '- <time>: <note>' per entry
RECURSIVE NotesText(_)
NotesText(entries) ==
    IF entries = <<>> THEN ""
    ELSE "- " \o TimeString(entries[1].score) \o ": " \o entries[1].note \o "\n"
         \o NotesText(Tail(entries))

\* ZADD key score member: a member already in the set only has its score updated.
ZAdd(zset, score, member) ==
    {r \in zset : r.note # member} \cup {[note |-> member, score |-> score]}

\* The number of positional arguments a method accepts besides self
\* (-1: any number, the method takes *args).
MaxPositional(name) ==
    CASE name \in {"somefunc", "docstrings"} -> -1
      [] name = "session_notes" -> 3
      [] name \in {"session_keys", "indices"} -> 1
      [] OTHER -> 0

\* The result of calling attribute `name` of the loop with `args`:
\* [raised |-> "" or the exception type, value |-> the returned value].
Call(name, args, fault, zset) ==
    IF ~Callable(name)
    THEN [raised |-> "TypeError", value |-> "'str' object is not callable"]
    ELSE IF MaxPositional(name) >= 0 /\ Len(args) > MaxPositional(name)
    THEN [raised |-> "TypeError", value |-> name \o "() takes too many arguments"]
    ELSE IF fault = "interrupt"
    THEN [raised |-> "KeyboardInterrupt", value |-> ""]
    ELSE IF name \in RedisReaders /\ fault = "redis_down"
    THEN [raised |-> "ConnectionError", value |-> "Error connecting to Redis"]
    ELSE CASE name = "lame" ->
                [raised |-> "ZeroDivisionError", value |-> "integer division or modulo by zero"]
           [] name = "somefunc" -> [raised |-> "", value |-> Join(args)]
           [] name = "docstrings" -> [raised |-> "", value |-> "<docstrings text>"]
           [] name = "_class_doc" -> [raised |-> "", value |-> "<class doc>"]
           [] name = "session_notes" ->
                [raised |-> "", value |-> IF args = <<>> THEN NotesText(ZRange(zset)) ELSE ""]
           [] name \in {"session_keys", "indices"} -> [raised |-> "", value |-> "<keys>"]
           [] OTHER -> [raised |-> "", value |-> "None"]

\* getattr(cmd_func, '__name__', ''): a bound method has a name, a
\* functools.partial object and a str have none.
FuncName(cmd, args) == IF args = <<>> /\ cmd \in Methods THEN cmd ELSE ""

\* getattr(cmd_func, '__doc__', '')
FuncDoc(cmd, args) ==
    IF args # <<>> THEN "partial(func, *args, **keywords)"
    ELSE IF IsData(cmd) THEN "str(object='') -> string"
    ELSE "doc of " \o cmd

\* getattr(cmd_func, '__module__', '')
FuncModule(cmd, args) ==
    IF args = <<>> /\ cmd \in Methods
    THEN IF cmd \in {"somefunc", "lame"} THEN "__main__" ELSE "chloop"
    ELSE ""

\* The dict of a successful command (lines 234-238).
SuccessInfo(cmd, args, value) == [cmd |-> cmd, args |-> args, value |-> value]

\* The dict of a failed command (lines 243-256).
ErrorInfo(cmd, args, etype, evalue, epoch) ==
    [traceback_string |-> "Traceback (most recent call last):\n" \o etype \o ": " \o evalue,
     error_type |-> "<type 'exceptions." \o etype \o "'>",
     error_value |-> etype \o "(" \o evalue \o ")",
     func |-> FuncName(cmd, args),
     func_doc |-> FuncDoc(cmd, args),
     func_module |-> FuncModule(cmd, args),
     func_args |-> ReprList(args),
     fqdn |-> "localhost",
     time_epoch |-> epoch,
     time_string |-> TimeString(epoch)]

----------------------------------------------------------------------------
(* The loop: GetCharLoop.__call__ *)

\* What one iteration read and did: the character (or the signal) from
\* click.getchar(), whether click.prompt was aborted, the line it returned, the
\* fault that accompanied the iteration, cmd and args of lines 215-216, the
\* function that was called, what that call raised, what was printed last, and
\* the dicts that history() or errors() printed, in the order they were printed.
Event(ch, aborted, user_input, fault, called, raised, printed) ==
    [ch |-> ch, aborted |-> aborted, user_input |-> user_input, fault |-> fault,
     cmd |-> "", args |-> <<>>, called |-> called, raised |-> raised,
     printed |-> printed, shown |-> <<>>]

\* The orders in which scan_iter can return the keys of `records`: SCAN
\* promises every key once and no order.
ScanOrders(records) ==
    {[i \in DOMAIN records |-> records[p[i]]] : p \in Permutations(DOMAIN records)}

\* What a call of `name` that returns prints of the session's dicts:
\* history() the keys '<base>:cmd_results*[0-9]', errors() the keys
\* '<base>:error*[0-9]', each in scan order.
Shown(name, results, errors) ==
    CASE name = "history" -> ScanOrders(results)
      [] name = "errors" -> ScanOrders(errors)
      [] OTHER -> {<<>>}

NoEvent == Event("", FALSE, <<>>, "none", "", "", "")

\* Lines 56-59: getattr(self, method).__doc__ or '' for every registered name.
MethodDocs(names) == [m \in names |-> FuncDoc(m, <<>>)]

\* The loop after the construction of a host that set `attrs`.
Constructed(attrs) ==
    /\ state = "AWAIT_CHAR"
    /\ stopped_by = ""
    /\ _chfunc_dict \in {MineHotkeys, OtherHotkeys}
    /\ host_attrs = attrs
    /\ _method_names = MethodNames(attrs)
    /\ _method_docs = MethodDocs(MethodNames(attrs))
    /\ cmd_results = <<>>
    /\ error = <<>>
    /\ notes = {}
    /\ event = NoEvent

Init == Constructed(MineAttrs)

InitHosts == \E attrs \in Hosts : Constructed(attrs)

\* A loop that swallows the signal and asks for the next character
\* (`continue` where line 196 has `break`).
GetCharSignal_Continue(sig) ==
    /\ state = "AWAIT_CHAR"
    /\ event' = Event(sig, FALSE, <<>>, "none", "", "", "")
    /\ UNCHANGED <<state, stopped_by, _chfunc_dict, registry, cmd_results, error, notes>>

\* Lines 194-196: click.getchar() raises EOFError or KeyboardInterrupt; break.
GetCharSignal(sig) ==
    /\ state = "AWAIT_CHAR"
    /\ state' = "STOPPED"
    /\ stopped_by' = "break"
    /\ event' = Event(sig, FALSE, <<>>, "none", "", "", "")
    /\ UNCHANGED <<_chfunc_dict, registry, cmd_results, error, notes>>

\* Lines 198-200: ch is a key of _chfunc_dict; print it and call its function.
\* Nothing catches what the function raises.
HotkeyPressed(c, fault) ==
    /\ state = "AWAIT_CHAR"
    /\ c \in DOMAIN _chfunc_dict
    /\ LET res == Call(_chfunc_dict[c][1], <<>>, fault, notes)
           ev == Event(c, FALSE, <<>>, fault, _chfunc_dict[c][1], res.raised, c)
       IN /\ state' = IF res.raised = "" THEN "AWAIT_CHAR" ELSE "STOPPED"
          /\ stopped_by' = res.raised
          /\ IF res.raised = ""
             THEN \E order \in Shown(_chfunc_dict[c][1], cmd_results, error) :
                     event' = [ev EXCEPT !.shown = order]
             ELSE event' = ev
    /\ UNCHANGED <<_chfunc_dict, registry, cmd_results, error, notes>>

\* An abort handler without the `continue` of line 207: control falls through
\* to the ZADD of line 208.
NoteAbort_FallThrough ==
    /\ state = "AWAIT_CHAR"
    /\ "-" \notin DOMAIN _chfunc_dict
    /\ \E epoch \in Epochs : notes' = ZAdd(notes, epoch, "")
    /\ event' = Event("-", TRUE, <<>>, "none", "", "", "\n")
    /\ UNCHANGED <<state, stopped_by, _chfunc_dict, registry, cmd_results, error>>

\* Lines 201-207: '-', then click.prompt raises Abort; print a blank line, continue.
NoteAbort ==
    /\ state = "AWAIT_CHAR"
    /\ "-" \notin DOMAIN _chfunc_dict
    /\ event' = Event("-", TRUE, <<>>, "none", "", "", "\n")
    /\ UNCHANGED <<state, stopped_by, _chfunc_dict, registry, cmd_results, error, notes>>

\* Lines 201-208: '-', then a line of text; ZADD it to the session notes with
\* the time read before the prompt.
NoteSubmit(epoch, text, fault) ==
    /\ state = "AWAIT_CHAR"
    /\ "-" \notin DOMAIN _chfunc_dict
    /\ IF fault # "redis_down"
       THEN /\ notes' = ZAdd(notes, epoch, text)
            /\ UNCHANGED <<state, stopped_by>>
            /\ event' = Event("-", FALSE, <<text>>, fault, "", "", "")
       ELSE /\ state' = "STOPPED"
            /\ stopped_by' = "ConnectionError"
            /\ event' = Event("-", FALSE, <<text>>, fault, "", "", "")
            /\ UNCHANGED notes
    /\ Cardinality(notes') + Len(cmd_results) + Len(error) <= MaxStored
    /\ UNCHANGED <<_chfunc_dict, registry, cmd_results, error>>

\* Lines 209-214: ':', then click.prompt raises Abort; print a blank line, continue.
CommandAbort ==
    /\ state = "AWAIT_CHAR"
    /\ ":" \notin DOMAIN _chfunc_dict
    /\ event' = Event(":", TRUE, <<>>, "none", "", "", "\n")
    /\ UNCHANGED <<state, stopped_by, _chfunc_dict, registry, cmd_results, error, notes>>

\* The iteration leaves __call__ with an exception that nothing catches.
Escapes(etype, ev) ==
    /\ state' = "STOPPED"
    /\ stopped_by' = etype
    /\ event' = ev
    /\ UNCHANGED <<cmd_results, error>>

\* The iteration ends at a `continue` or at the end of the loop body with
\* nothing added to Redis.
Continues(ev) ==
    /\ event' = ev
    /\ UNCHANGED <<state, stopped_by, cmd_results, error>>

\* Lines 240-260: the bare except; build the error dict, print it, add it
\* under keypart 'error'.  What _redis_add raises here is caught by nothing.
HandleException(cmd, args, etype, evalue, fault, epoch, ev) ==
    LET info == ErrorInfo(cmd, args, etype, evalue, epoch)
    IN /\ UNCHANGED cmd_results
       /\ event' = [ev EXCEPT !.printed = info.traceback_string]
       /\ IF fault # "redis_down"
          THEN /\ error' = Append(error, info)
               /\ UNCHANGED <<state, stopped_by>>
          ELSE /\ state' = "STOPPED"
               /\ stopped_by' = "ConnectionError"
               /\ UNCHANGED error

\* Lines 231-239: call cmd_func; add the dict of the result under keypart
\* 'cmd_results' unless the command is one of _DONT_LOG_CMDS.
CallAndLog(cmd, args, fault, epoch, ev) ==
    LET res == Call(cmd, args, fault, notes)
    IN IF res.raised # ""
       THEN HandleException(cmd, args, res.raised, res.value, fault, epoch,
                            [ev EXCEPT !.raised = res.raised])
       ELSE IF cmd \in _DONT_LOG_CMDS
       THEN \E order \in Shown(cmd, cmd_results, error) :
               Continues([ev EXCEPT !.shown = order])
       ELSE IF fault \in {"redis_down", "add_fails"}
       THEN \* line 239 raises inside the try
            HandleException(cmd, args, "ConnectionError", "Error connecting to Redis",
                            fault, epoch, ev)
       ELSE /\ cmd_results' = Append(cmd_results, SuccessInfo(cmd, args, res.value))
            /\ event' = ev
            /\ UNCHANGED <<state, stopped_by, error>>

\* Lines 209-260: ':', then a line; split it, look the command up, call it, log it.
CommandSubmit(line, fault, epoch) ==
    /\ state = "AWAIT_CHAR"
    /\ ":" \notin DOMAIN _chfunc_dict
    /\ LET tokens == Split(line)
           ev0 == Event(":", FALSE, line, fault, "", "", "")
       IN IF tokens = <<>>
          THEN \* line 215: user_input.split()[0] raises IndexError
               Escapes("IndexError", ev0)
          ELSE
          LET cmd == tokens[1]
              args == Tail(tokens)
              ev1 == [ev0 EXCEPT !.cmd = cmd, !.args = args]
          IN IF cmd = DebuggerCmd
             THEN \* lines 218-220: the debugger runs, then continue
                  Continues([ev1 EXCEPT !.called = "ipdb.set_trace"])
             ELSE IF ~HasAttr(cmd)
             THEN \* lines 227-229: AttributeError
                  Continues([ev1 EXCEPT !.printed = "invalid command"])
             ELSE IF args # <<>> /\ IsData(cmd)
             THEN \* line 224: partial() of something not callable raises TypeError
                  Escapes("TypeError", ev1)
             ELSE CallAndLog(cmd, args, fault, epoch, [ev1 EXCEPT !.called = cmd])
    /\ Cardinality(notes) + Len(cmd_results') + Len(error') <= MaxStored
    /\ UNCHANGED <<_chfunc_dict, registry, notes>>

\* Lines 261-267: any other character; print its repr and, when it is a single
\* character, its code point.
OtherChar(c) ==
    /\ state = "AWAIT_CHAR"
    /\ c \notin DOMAIN _chfunc_dict
    /\ c \notin {"-", ":"}
    /\ event' = Event(c, FALSE, <<>>, "none", "", "",
                      IF c \in EscapeSeqs THEN "'" \o c \o "'"
                      ELSE "'" \o c \o "' " \o ToString(Ord(c)))
    /\ UNCHANGED <<state, stopped_by, _chfunc_dict, registry, cmd_results, error, notes>>

Next ==
    \/ \E sig \in CharSignals : GetCharSignal(sig)
    \/ \E c \in Chars, fault \in {"none", "interrupt", "redis_down"} : HotkeyPressed(c, fault)
    \/ NoteAbort
    \/ \E epoch \in Epochs, text \in NoteTexts, fault \in {"none", "redis_down"} :
          NoteSubmit(epoch, text, fault)
    \/ CommandAbort
    \/ \E input \in CommandInputs : CommandSubmit(input[1], input[2], input[3])
    \/ \E c \in Chars : OtherChar(c)

Spec == Init /\ [][Next]_vars

\* The loop of any of the sub-classes of Hosts.
SpecHosts == InitHosts /\ [][Next]_vars

----------------------------------------------------------------------------
(* Properties *)

\* The dicts this step added to Redis, 'cmd_results' first.
NewRecords ==
    SubSeq(cmd_results', Len(cmd_results) + 1, Len(cmd_results'))
    \o SubSeq(error', Len(error) + 1, Len(error'))

\* This step changed no dict that was in Redis before it.
OldRecordsKept ==
    /\ Len(cmd_results') >= Len(cmd_results)
    /\ Len(error') >= Len(error)
    /\ SubSeq(cmd_results', 1, Len(cmd_results)) = cmd_results
    /\ SubSeq(error', 1, Len(error)) = error

LogUnchanged == cmd_results' = cmd_results /\ error' = error

\* This step handled a line typed after ':'.
TypedLine == event'.ch = ":" /\ ~event'.aborted /\ event'.user_input # <<>>

\* C1: the loop is left only by the break of lines 195-196, that is, because
\* click.getchar() raised EOFError or KeyboardInterrupt; no failure of a hotkey
\* function, of a typed command or of parsing and resolving a line ends it.
C1_StoppedOnlyByCharSource ==
    state = "STOPPED" => stopped_by = "break" /\ event.ch \in CharSignals

\* C2: a typed command that resolves and whose call raises adds exactly one
\* error Record with status 'error' and a non-empty traceback_string, and the
\* loop stays in AWAIT_CHAR.
C2_RaisingCommandLogsError ==
    [][(TypedLine /\ event'.fault \in {"none", "interrupt"} /\ event'.raised # "")
        => /\ Len(NewRecords) = 1
           /\ OldRecordsKept
           /\ "status" \in DOMAIN NewRecords[1]
           /\ NewRecords[1].status = "error"
           /\ "traceback_string" \in DOMAIN NewRecords[1]
           /\ NewRecords[1].traceback_string # ""
           /\ state' = "AWAIT_CHAR"]_vars

\* C3: the line ':c a1 a2 ...' of a registered command c outside the do-not-log
\* set adds exactly one Record, with cmd c and args the tokens after the name
\* in order, and changes no other record.
C3_OneRecordPerCommand ==
    [][(/\ TypedLine
        /\ event'.fault = "none"
        /\ event'.cmd \in (_method_names \ _DONT_LOG_CMDS) \ {"ipdb"})
        => /\ Len(NewRecords) = 1
           /\ OldRecordsKept
           /\ {"cmd", "args"} \subseteq DOMAIN NewRecords[1]
           /\ NewRecords[1].cmd = Split(event'.user_input)[1]
           /\ NewRecords[1].args = Tail(Split(event'.user_input))]_vars

\* C4: the line ':x' of a name x that is not registered adds exactly one error
\* Record with cmd x and error_type 'invalid command', and the loop is in
\* AWAIT_CHAR afterwards.
C4_UnknownCommandLogged ==
    [][(/\ TypedLine
        /\ event'.fault = "none"
        /\ event'.cmd # ""
        /\ event'.cmd \notin _method_names
        /\ ~HasAttr(event'.cmd))
        => /\ Len(NewRecords) = 1
           /\ OldRecordsKept
           /\ {"cmd", "error_type"} \subseteq DOMAIN NewRecords[1]
           /\ NewRecords[1].cmd = event'.cmd
           /\ NewRecords[1].error_type = "invalid command"
           /\ state' = "AWAIT_CHAR"]_vars

\* C5: a command of the do-not-log set is executed and adds no Record of any
\* kind, whether its call returns or raises.
C5_DontLogAddsNothing ==
    [][(TypedLine /\ event'.fault = "none" /\ event'.cmd \in _DONT_LOG_CMDS /\ HasAttr(event'.cmd))
        => event'.called = event'.cmd /\ LogUnchanged]_vars

\* C6: typing docstrings, shortcuts, history or errors leaves the log as it was.
C6_BuiltinsNotLogged ==
    [][(/\ TypedLine
        /\ event'.fault = "none"
        /\ event'.user_input \in {<<"docstrings">>, <<"shortcuts">>, <<"history">>, <<"errors">>})
        => LogUnchanged]_vars

\* C7: a submitted line without a command token is an abort: the loop is in
\* AWAIT_CHAR afterwards, log and registry are unchanged.
C7_BlankLineAborts ==
    [][(TypedLine /\ Split(event'.user_input) = <<>>)
        => /\ state' = "AWAIT_CHAR"
           /\ LogUnchanged
           /\ notes' = notes
           /\ _chfunc_dict' = _chfunc_dict]_vars

\* C8: a cancel raised while a command line or a note is being typed aborts
\* only that line: the loop is in AWAIT_CHAR afterwards, and neither the log nor
\* the session notes gain an entry.
C8_AbortedLineChangesNothing ==
    [][event'.aborted
        => /\ event'.ch \in {":", "-"}
           /\ state = "AWAIT_CHAR"
           /\ state' = "AWAIT_CHAR"
           /\ stopped_by' = ""
           /\ LogUnchanged
           /\ notes' = notes]_vars

\* A note was aborted in a session that holds a note and a logged command.
C8_Witness ==
    /\ event.aborted
    /\ event.ch = "-"
    /\ state = "AWAIT_CHAR"
    /\ notes # {}
    /\ Len(cmd_results) + Len(error) > 0

\* C9: EOFError or KeyboardInterrupt from click.getchar() moves the loop to
\* STOPPED and adds no Record; from STOPPED nothing is read and nothing is
\* called any more (no step is taken).
C9_CharSignalStops ==
    [][/\ state # "STOPPED"
       /\ (event'.ch \in CharSignals
            => /\ state' = "STOPPED"
               /\ stopped_by' = "break"
               /\ event'.called = ""
               /\ LogUnchanged
               /\ notes' = notes)]_vars

\* The loop was stopped by end-of-input in a session that holds entries.
C9_Witness ==
    /\ state = "STOPPED"
    /\ stopped_by = "break"
    /\ event.ch = "EOFError"
    /\ Len(cmd_results) > 0
    /\ notes # {}

\* C10: every Record of the log has status in {ok, error}, cmd and args; a
\* success Record has value, an error Record has error_type, error_value and
\* traceback_string.
RecordWellFormed(r) ==
    /\ {"status", "cmd", "args"} \subseteq DOMAIN r
    /\ r.status \in {"ok", "error"}
    /\ r.status = "ok" => "value" \in DOMAIN r
    /\ r.status = "error" => {"error_type", "error_value", "traceback_string"} \subseteq DOMAIN r

C10_RecordFields ==
    /\ \A i \in DOMAIN cmd_results : RecordWellFormed(cmd_results[i])
    /\ \A i \in DOMAIN error : RecordWellFormed(error[i])

\* C11 as stated: a line whose first token is 'pdb' or 'ipython' opens the
\* external interactive session before any lookup, adds no Record, and the loop
\* is in AWAIT_CHAR afterwards.
C11_PdbIpythonHandOff ==
    [][(TypedLine /\ event'.cmd \in {"pdb", "ipython"})
        => /\ event'.called = "ipdb.set_trace"
           /\ event'.printed # "invalid command"
           /\ LogUnchanged
           /\ state' = "AWAIT_CHAR"]_vars

\* C11 as amended: a line whose first token is exactly 'ipdb' opens the debugger
\* (ipdb.set_trace()) before any attribute lookup or call of the loop's own
\* ipdb method, adds no Record and no note, and the loop is in AWAIT_CHAR
\* afterwards.
C11_IpdbHandOff ==
    [][(TypedLine /\ Split(event'.user_input) # <<>> /\ Split(event'.user_input)[1] = "ipdb")
        => /\ event'.called = "ipdb.set_trace"
           /\ event'.raised = ""
           /\ event'.printed = ""
           /\ LogUnchanged
           /\ notes' = notes
           /\ state' = "AWAIT_CHAR"
           /\ stopped_by' = ""]_vars

\* The debugger was opened from a session that holds a logged command and a note.
C11_Witness ==
    /\ event.ch = ":"
    /\ event.user_input = <<"ipdb">>
    /\ event.called = "ipdb.set_trace"
    /\ state = "AWAIT_CHAR"
    /\ Len(cmd_results) > 0
    /\ notes # {}

\* C12: every note submitted after '-' adds exactly one new entry holding the
\* raw text to the session's notes, also when the same text was submitted
\* before, and leaves the earlier entries unchanged.
C12_NoteAddsOneEntry ==
    [][(/\ event'.ch = "-"
        /\ ~event'.aborted
        /\ event'.fault = "none"
        /\ event'.user_input # <<>>)
        => /\ Cardinality(notes') = Cardinality(notes) + 1
           /\ notes \subseteq notes'
           /\ \E r \in notes' \ notes : r.note = event'.user_input[1]
           /\ state' = "AWAIT_CHAR"]_vars

\* C13: a typed name is called if and only if it is registered; any other
\* name, also one that starts with '_' or names another attribute of the loop,
\* is an unknown command and nothing is called.
C13_OnlyRegisteredNamesCalled ==
    [][(TypedLine /\ event'.fault = "none" /\ event'.cmd # "" /\ event'.cmd # DebuggerCmd)
        => /\ event'.called = event'.cmd <=> event'.cmd \in _method_names
           /\ event'.cmd \notin _method_names
                => /\ event'.called = ""
                   /\ event'.printed = "invalid command"
                   /\ LogUnchanged]_vars

\* C17: pressing a character that is bound as a hotkey, also '-' or ':', calls
\* the bound function once, enters neither the note nor the command sub-mode,
\* adds no Record, and leaves the loop in AWAIT_CHAR.
C17_HotkeyFirst ==
    [][(state = "AWAIT_CHAR" /\ event'.ch \in DOMAIN _chfunc_dict /\ event'.fault = "none")
        => /\ event'.called = _chfunc_dict[event'.ch][1]
           /\ ~event'.aborted
           /\ event'.user_input = <<>>
           /\ LogUnchanged
           /\ notes' = notes
           /\ state' = "AWAIT_CHAR"]_vars

\* C18: an error Record is added for a typed command only if the called
\* function itself raised; one call never adds more than one Record.
C18_ErrorOnlyWhenActionRaised ==
    [][(TypedLine /\ event'.called \notin {"", "ipdb.set_trace"})
        => /\ error' # error => event'.raised # ""
           /\ Len(NewRecords) <= 1]_vars

\* C15: every hotkey binding holds something that can be called, so pressing
\* a bound character never fails because the bound value cannot be called.
C15_BindingsInvocable ==
    \A c \in DOMAIN _chfunc_dict :
        event.ch = c => Callable(_chfunc_dict[c][1]) /\ stopped_by # "TypeError"

\* C16: history shows exactly the success Records of this session, in the
\* order in which they were added.
C16_HistoryChronological ==
    [][(event'.called = "history" /\ event'.raised = "" /\ event'.fault = "none")
        => event'.shown = cmd_results]_vars

\* The registered names are the callable members whose name does not start
\* with '_', and each has a docstring entry.
RegistryExact ==
    /\ _method_names = {m \in Members(host_attrs) : ~StartsWithUnderscore(m) /\ Callable(m)}
    /\ \A m \in _method_names :
          ~StartsWithUnderscore(m) /\ Callable(m) /\ m \in DOMAIN _method_docs

\* C14: after construction and in every later state the registry holds exactly
\* the members of the host that are callable and whose name does not start
\* with '_', each with a docstring entry; no registered name is ever removed.
C14_RegistryCallableAndKept ==
    []RegistryExact /\ [][_method_names \subseteq _method_names']_vars

====
